---- MODULE Spec2Model ----
(***************************************************************************)
(* loctocat: OAuth 2.0 device flow authentication (src/loctocat/auth.py).  *)
(*                                                                         *)
(* The model holds one Authenticator and one AsyncAuthenticator that are   *)
(* constructed alike and driven by the same calls and the same server      *)
(* answers, so that each class can be examined on its own and the two can  *)
(* be compared.  A Python dict (a JSON response) is a function whose       *)
(* DOMAIN is the set of keys present; Python's None is the empty function. *)
(***************************************************************************)
EXTENDS Integers, Sequences, FiniteSets, TLC

VARIABLES authenticator, responses, attached

vars == <<authenticator, responses, attached>>

-----------------------------------------------------------------------------
(* Bounds of the model *)

MaxRequests == 3
MaxAttach == 2
MaxOtherSteps == 2

-----------------------------------------------------------------------------
(* Values *)

Kinds == {"Authenticator", "AsyncAuthenticator"}

None == <<>>

ErrorCodes == {"authorization_pending", "slow_down", "expired_token"}

Tokens == {"gho_A", "gho_B"}

\* poll_interval: int = 5
DefaultPollInterval == 5

\* the 5 of ctx.poll_interval + 5
SlowDownStep == 5

\* The callables the model knows: the two default lambdas and the actions a
\* caller may pass to Handler(...).
DefaultPendingAction == "time.sleep(ctx.auth_info.interval)"
DefaultSlowDownAction == "ctx.poll_interval == ctx.poll_interval + 5"
UserActions == {"user_action"}

Handler(error, action, continue_on_error) ==
    [error |-> error, action |-> action, continue_on_error |-> continue_on_error]

UserHandlers ==
    {Handler(e, f, c) : e \in ErrorCodes, f \in UserActions, c \in BOOLEAN}

LoctocatAuthInfo(device_code, user_code, verificiation_uri, expires_in, interval) ==
    [device_code |-> device_code, user_code |-> user_code,
     verification_uri |-> verificiation_uri,
     expires_in |-> expires_in, interval |-> interval]

\* JSON answers of the token endpoint.
TokenResponses ==
    {[error |-> e] : e \in ErrorCodes}
        \cup {[access_token |-> t] : t \in Tokens}
        \cup {[token_type |-> "bearer"]}

\* JSON answers of the device authorization endpoint.
DeviceResponses ==
    { [device_code |-> "dc1", user_code |-> "WDJB", verification_uri |-> "uri",
       expires_in |-> 900, interval |-> 5],
      [device_code |-> "dc2", user_code |-> "WDJB", verification_uri |-> "uri",
       verification_url |-> "url", expires_in |-> 900, interval |-> 10],
      [device_code |-> "dc1", user_code |-> "WDJB", verification_url |-> "url",
       expires_in |-> 900, interval |-> 5],
      [device_code |-> "dc1", user_code |-> "WDJB",
       expires_in |-> 900, interval |-> 5],
      [user_code |-> "WDJB", verification_uri |-> "uri",
       expires_in |-> 900, interval |-> 5],
      [device_code |-> "dc1", verification_uri |-> "uri",
       expires_in |-> 900, interval |-> 5],
      [device_code |-> "dc1", user_code |-> "WDJB", verification_uri |-> "uri",
       interval |-> 5],
      [device_code |-> "dc1", user_code |-> "WDJB", verification_uri |-> "uri",
       expires_in |-> 900] }

\* What the transport raises when a request fails (requests / aiohttp).
Failures == {"ConnectionError", "Timeout"}

-----------------------------------------------------------------------------
(* Handler registry *)

\* next((h for h in self._handlers if h.error == error), None)
Matching(handlers, error) ==
    {i \in 1..Len(handlers) : handlers[i].error = error}

FirstMatch(handlers, error) ==
    CHOOSE i \in Matching(handlers, error) :
        \A j \in Matching(handlers, error) : i <= j

lookup(handlers, error) ==
    IF Matching(handlers, error) = {} THEN None
    ELSE handlers[FirstMatch(handlers, error)]

\* list.remove of the element at index i
RemoveAt(s, i) == SubSeq(s, 1, i - 1) \o SubSeq(s, i + 1, Len(s))

\* attach_handler without the remove: the new handler is only appended
attach_handler_appends(handlers, handler) == Append(handlers, handler)

\* attach_handler that leaves a code's existing handler in place
attach_handler_keeps(handlers, handler) ==
    IF Matching(handlers, handler.error) = {}
    THEN Append(handlers, handler)
    ELSE handlers

attach_handler(handlers, handler) ==
    IF Matching(handlers, handler.error) = {}
    THEN Append(handlers, handler)
    ELSE Append(RemoveAt(handlers, FirstMatch(handlers, handler.error)), handler)

get_default_handlers ==
    << Handler("authorization_pending", DefaultPendingAction, TRUE),
       Handler("slow_down", DefaultSlowDownAction, TRUE) >>

get_handlers(a) == a.handlers

-----------------------------------------------------------------------------
(* One authenticator: the object's fields (poll_interval, auth_info,       *)
(* handlers), and the frame of the call in progress: which method (call),  *)
(* where it is (pc), poll's locals (uri, handler), what the call has done  *)
(* so far (requests, actions, sleeps) and how it ended (result).           *)

\* None in a slot that otherwise holds a str
NoneStr == "None"

NoResult == [type |-> "running", value |-> <<>>]

Raised(type, args) == [type |-> type, value |-> args]

Returned(type, value) == [type |-> type, value |-> value]

RECURSIVE AttachAll(_, _)
AttachAll(handlers, hs) ==
    IF hs = <<>> THEN handlers
    ELSE AttachAll(attach_handler(handlers, Head(hs)), Tail(hs))

\* entry: the object's fields as the call found them; answer: the JSON the
\* device authorization endpoint gave the call; failures: the transport
\* failures the call met.  For authenticate (outer): its keyword arguments
\* (args), the methods it has called (calls) and how they ended (pinged,
\* polled), the state of the Halo spinner and the texts given to its succeed.
\* others: the steps other tasks of the event loop took during the call.
NoCall ==
    [call |-> "", pc |-> "idle", uri |-> "", handler |-> None,
     requests |-> <<>>, actions |-> <<>>, sleeps |-> <<>>, result |-> NoResult,
     entry |-> None, answer |-> None, failures |-> <<>>,
     outer |-> "", args |-> None, calls |-> <<>>,
     pinged |-> NoResult, polled |-> NoResult,
     spinner |-> "", succeeded |-> <<>>, others |-> 0]

Fields(a) ==
    [poll_interval |-> a.poll_interval, auth_info |-> a.auth_info,
     handlers |-> a.handlers]

NewAuthenticator(poll_interval) ==
    [poll_interval |-> poll_interval,
     auth_info |-> None,
     handlers |-> AttachAll(<<>>, get_default_handlers)] @@ NoCall

\* the call returns to its caller (or its exception reaches the caller)
Leave(a, result) == [a EXCEPT !.pc = "done", !.result = result]

-----------------------------------------------------------------------------
(* ping *)

Get(response, key) ==
    IF key \in DOMAIN response THEN response[key] ELSE NoneStr

\* an or that takes its second operand whenever there is one
Or_second(x, y) == IF y # NoneStr /\ y # "" THEN y ELSE x

\* x or y, for str-or-None operands
Or(x, y) == IF x # NoneStr /\ x # "" THEN x ELSE y

RequiredKeys == <<"device_code", "user_code", "expires_in", "interval">>

\* the first response[key] that raises KeyError, in evaluation order
MissingKeys(response) ==
    {i \in 1..Len(RequiredKeys) : RequiredKeys[i] \notin DOMAIN response}

FirstMissing(response) ==
    RequiredKeys[CHOOSE i \in MissingKeys(response) :
                     \A j \in MissingKeys(response) : i <= j]

\* a ping that forgets the AuthInfo it holds before it asks for a new one
ping_resets(a, response) ==
    IF MissingKeys(response) # {}
    THEN Leave([a EXCEPT !.call = "ping", !.entry = Fields(a),
                         !.answer = response, !.auth_info = None],
               Raised("KeyError", <<FirstMissing(response)>>))
    ELSE LET auth_info ==
                 LoctocatAuthInfo(
                     response["device_code"],
                     response["user_code"],
                     Or(Get(response, "verification_uri"),
                        Get(response, "verification_url")),
                     response["expires_in"],
                     response["interval"])
         IN  Leave([a EXCEPT !.call = "ping", !.entry = Fields(a),
                             !.answer = response, !.auth_info = auth_info],
                   Returned("LoctocatAuthInfo", <<auth_info>>))

ping(a, response) ==
    IF MissingKeys(response) # {}
    THEN Leave([a EXCEPT !.call = "ping", !.entry = Fields(a),
                         !.answer = response],
               Raised("KeyError", <<FirstMissing(response)>>))
    ELSE LET auth_info ==
                 LoctocatAuthInfo(
                     response["device_code"],
                     response["user_code"],
                     Or(Get(response, "verification_uri"),
                        Get(response, "verification_url")),
                     response["expires_in"],
                     response["interval"])
         IN  Leave([a EXCEPT !.call = "ping", !.entry = Fields(a),
                             !.answer = response, !.auth_info = auth_info],
                   Returned("LoctocatAuthInfo", <<auth_info>>))

\* requests.post / session.post raises: nothing after it runs
ping_failure(a, failure) ==
    Leave([a EXCEPT !.call = "ping", !.entry = Fields(a),
                    !.failures = Append(@, [request |-> 1, failure |-> failure])],
          Raised(failure, <<>>))

-----------------------------------------------------------------------------
(* The callables of the handlers.  Each is the state of ctx after the call; *)
(* time.sleep is the one that takes time, and is a step of its own.         *)

\* a sleep of the authenticator's poll_interval instead
pending_seconds_poll_interval(ctx) == ctx.poll_interval

\* lambda ctx: time.sleep(ctx.auth_info.interval): the seconds slept
pending_seconds(ctx) == ctx.auth_info.interval

\* lambda ctx: ctx.poll_interval == ctx.poll_interval + 5: a comparison,
\* whose value is dropped; nothing is assigned
slow_down_action(ctx) == ctx

user_action(ctx) == ctx

Call(action, ctx) ==
    CASE action = DefaultSlowDownAction -> slow_down_action(ctx)
      [] action = DefaultPendingAction -> ctx
      [] OTHER -> user_action(ctx)

\* what the actions log keeps of one handler.action(self)
Ran(a, handler, after) ==
    [action |-> handler.action,
     error |-> handler.error,
     response |-> Len(a.requests),
     before |-> a.poll_interval,
     after |-> after.poll_interval,
     wait |-> pending_seconds(a)]

Slept(a) == [before |-> Len(a.requests) + 1, seconds |-> pending_seconds(a)]

-----------------------------------------------------------------------------
(* poll *)

\* poll that tolerates a missing AuthInfo and goes on to the loop
poll_begin_unguarded(a) ==
    [a EXCEPT !.call = "poll", !.pc = "post",
              !.uri = IF a.auth_info = None THEN NoneStr
                      ELSE a.auth_info.device_code]

\* uri = self._dc.prepare_request_uri(self.token_url, device_code=...)
poll_begin(a) ==
    IF a.auth_info = None
    THEN Leave([a EXCEPT !.call = "poll", !.entry = Fields(a)],
               Raised("AttributeError", <<"device_code">>))
    ELSE [a EXCEPT !.call = "poll", !.pc = "post", !.entry = Fields(a),
                   !.uri = a.auth_info.device_code]

\* a post that sends the request twice without waiting for the answer
poll_post_twice(a) ==
    [a EXCEPT !.requests = Append(Append(@, a.uri), a.uri), !.pc = "await"]

\* requests.post(uri, ...) / session.post(uri, ...)
poll_post(a) ==
    [a EXCEPT !.requests = Append(@, a.uri), !.pc = "await"]

\* a success that does not leave the loop
poll_return_loops(a, response) == [a EXCEPT !.pc = "post"]

\* return response["access_token"]
poll_return(a, response) ==
    IF "access_token" \in DOMAIN response
    THEN Leave(a, Returned("str", <<response["access_token"]>>))
    ELSE Leave(a, Raised("KeyError", <<"access_token">>))

\* a ServerError with a fixed message
server_error_generic(kind, error) == <<"The server returned an error">>

\* raise ServerError(...)
server_error_args(kind, error) ==
    IF kind = "Authenticator"
    THEN <<error>>
    ELSE <<"The server returned the following error: ", error>>

poll_raise(kind, a, error) ==
    Leave(a, Raised("ServerError", server_error_args(kind, error)))

\* after handler.action(self) has returned
poll_handled(kind, a) ==
    IF kind = "Authenticator"
    THEN IF a.handler.continue_on_error
         THEN [a EXCEPT !.pc = "post"]
         ELSE Leave(a, Returned("None", <<>>))
    ELSE [a EXCEPT !.pc = "post"]

\* handler.action(self)
poll_action(kind, a, handler) ==
    IF handler.action = DefaultPendingAction
    THEN [a EXCEPT !.handler = handler,
                   !.actions = Append(@, Ran(a, handler, a)),
                   !.sleeps = Append(@, Slept(a)),
                   !.pc = "sleep"]
    ELSE LET after == Call(handler.action, a)
         IN  poll_handled(kind,
                 [after EXCEPT !.handler = handler,
                               !.actions = Append(@, Ran(a, handler, after))])

\* response = ....json() and the if "error" in response: of the loop body
poll_response(kind, a, response) ==
    IF "error" \in DOMAIN response
    THEN LET handler == lookup(a.handlers, response["error"])
         IN  IF handler # None
             THEN poll_action(kind, a, handler)
             ELSE poll_raise(kind, a, response["error"])
    ELSE poll_return(a, response)

\* time.sleep returns
poll_wake(kind, a) == poll_handled(kind, a)

\* a loop that swallows the transport failure and tries again
poll_failure_retries(a, failure) ==
    [a EXCEPT !.failures =
                  Append(@, [request |-> Len(a.requests), failure |-> failure]),
              !.pc = "post"]

\* requests.post / session.post (or .json()) raises: the exception leaves
\* the loop, there is no try around it
poll_failure(a, failure) ==
    Leave([a EXCEPT !.failures =
                        Append(@, [request |-> Len(a.requests),
                                   failure |-> failure])],
          Raised(failure, <<>>))

-----------------------------------------------------------------------------
(* The two authenticators are constructed alike, get the same calls, and   *)
(* the server gives the n-th token request of each the same answer.        *)

Init ==
    /\ authenticator = [k \in Kinds |-> NewAuthenticator(DefaultPollInterval)]
    /\ responses = <<>>
    /\ attached = <<>>

At(pc) == {k \in Kinds : authenticator[k].pc = pc}

Idle == At("idle") = Kinds

AttachHandler(h) ==
    /\ Idle
    /\ Len(attached) < MaxAttach
    /\ authenticator' = [k \in Kinds |->
           [authenticator[k] EXCEPT !.handlers = attach_handler(@, h)]]
    /\ attached' = Append(attached, h)
    /\ UNCHANGED responses

Ping(response) ==
    /\ Idle
    /\ authenticator' = [k \in Kinds |-> ping(authenticator[k], response)]
    /\ UNCHANGED <<responses, attached>>

PingFailure(failure) ==
    /\ Idle
    /\ authenticator' = [k \in Kinds |-> ping_failure(authenticator[k], failure)]
    /\ UNCHANGED <<responses, attached>>

PollBegin ==
    /\ Idle
    /\ authenticator' = [k \in Kinds |-> poll_begin(authenticator[k])]
    /\ UNCHANGED <<responses, attached>>

PollPost ==
    /\ At("post") # {}
    /\ At("await") = {} /\ At("sleep") = {}
    /\ Len(responses) < MaxRequests
    /\ authenticator' = [k \in Kinds |->
           IF k \in At("post") THEN poll_post(authenticator[k])
           ELSE authenticator[k]]
    /\ UNCHANGED <<responses, attached>>

PollResponse(response) ==
    /\ At("await") # {}
    /\ authenticator' = [k \in Kinds |->
           IF k \in At("await") THEN poll_response(k, authenticator[k], response)
           ELSE authenticator[k]]
    /\ responses' = Append(responses, response)
    /\ UNCHANGED attached

PollFailure(failure) ==
    /\ At("await") # {}
    /\ authenticator' = [k \in Kinds |->
           IF k \in At("await") THEN poll_failure(authenticator[k], failure)
           ELSE authenticator[k]]
    /\ UNCHANGED <<responses, attached>>

PollWake ==
    /\ At("sleep") # {}
    /\ authenticator' = [k \in Kinds |->
           IF k \in At("sleep") THEN poll_wake(k, authenticator[k])
           ELSE authenticator[k]]
    /\ UNCHANGED <<responses, attached>>

Return ==
    /\ At("done") = Kinds
    /\ \A k \in Kinds : authenticator[k].outer = authenticator[k].call
                           \/ authenticator[k].outer = ""
    /\ authenticator' = [k \in Kinds |->
           [f \in DOMAIN authenticator[k] |->
               IF f \in DOMAIN NoCall THEN NoCall[f] ELSE authenticator[k][f]]]
    /\ responses' = <<>>
    /\ UNCHANGED attached

Next ==
    \/ \E h \in UserHandlers : AttachHandler(h)
    \/ \E response \in DeviceResponses : Ping(response)
    \/ \E failure \in Failures : PingFailure(failure)
    \/ PollBegin
    \/ PollPost
    \/ \E response \in TokenResponses : PollResponse(response)
    \/ \E failure \in Failures : PollFailure(failure)
    \/ PollWake
    \/ Return

Spec == Init /\ [][Next]_vars

-----------------------------------------------------------------------------
(* authenticate, and the _Spinner context manager around its poll.  The     *)
(* message printed before the poll touches no state and is left out.        *)

DefaultSuccessMessage == "Authentication successful!"

AuthenticateArgs ==
    { [use_default_success_message |-> TRUE, success_message |-> NoneStr,
       use_default_spinner |-> TRUE, spinner |-> NoneStr],
      [use_default_success_message |-> TRUE, success_message |-> "Signed in",
       use_default_spinner |-> TRUE, spinner |-> NoneStr],
      [use_default_success_message |-> FALSE, success_message |-> NoneStr,
       use_default_spinner |-> FALSE, spinner |-> "Halo"],
      [use_default_success_message |-> TRUE, success_message |-> NoneStr,
       use_default_spinner |-> FALSE, spinner |-> NoneStr] }

Truthy(x) == x # NoneStr /\ x # ""

\* if use_default_spinner and not spinner: spinner = Halo(...)
SpinnerOf(args) ==
    IF args.use_default_spinner /\ ~Truthy(args.spinner) THEN "Halo"
    ELSE args.spinner

\* _Spinner.spin_condition: the wrapped method runs only with a spinner
spin_condition(args) == Truthy(SpinnerOf(args))

\* _Spinner.__enter__: spinner.start()
spinner_enter(a) ==
    IF spin_condition(a.args) THEN [a EXCEPT !.spinner = "spinning"] ELSE a

\* sp.succeed(...): sp is the Halo that start() returned, or the _Spinner
\* itself, whose succeed does nothing without a spinner
SuccessText(args) ==
    IF args.use_default_success_message /\ ~Truthy(args.success_message)
    THEN <<DefaultSuccessMessage>>
    ELSE IF Truthy(args.success_message) THEN <<args.success_message>>
    ELSE <<>>

spinner_succeed(a) ==
    IF spin_condition(a.args)
    THEN [a EXCEPT !.spinner = "succeeded",
                   !.succeeded = Append(@, SuccessText(a.args))]
    ELSE a

\* _Spinner.__exit__: spinner.stop(), which returns None; without a spinner
\* the wrapper returns the _Spinner object, which is true
spinner_exit(a) ==
    IF spin_condition(a.args)
    THEN [a EXCEPT !.spinner = IF @ = "spinning" THEN "stopped" ELSE @]
    ELSE a

exit_suppresses(args) == ~spin_condition(args)

IsRaise(result) == result.type \notin {"str", "None", "LoctocatAuthInfo"}

\* self.ping() has ended as p; then the spinner, the with and self.poll()
authenticate_pinged(p, args) ==
    LET called == [p EXCEPT !.outer = "authenticate", !.args = args,
                            !.calls = <<"ping">>, !.pinged = p.result]
    IN  IF IsRaise(p.result)
        THEN [called EXCEPT !.call = "authenticate"]
        ELSE poll_begin([spinner_enter(called) EXCEPT
                             !.calls = Append(@, "poll"),
                             !.pc = "idle", !.result = NoResult])

\* self.poll() has ended: succeed and return token, or the exception meets
\* __exit__, and when __exit__ returns a true value the with swallows it and
\* authenticate runs off its end
authenticate_polled(a) ==
    LET b == [a EXCEPT !.call = "authenticate", !.polled = a.result]
    IN  IF ~IsRaise(a.result)
        THEN spinner_exit(spinner_succeed(b))
        ELSE IF exit_suppresses(a.args)
             THEN [spinner_exit(b) EXCEPT !.result = Returned("None", <<>>)]
             ELSE spinner_exit(b)

PollEnded(a) == a.outer = "authenticate" /\ a.call = "poll" /\ a.pc = "done"

Authenticate(args, response) ==
    /\ Idle
    /\ authenticator' = [k \in Kinds |->
           authenticate_pinged(ping(authenticator[k], response), args)]
    /\ UNCHANGED <<responses, attached>>

AuthenticateFailure(args, failure) ==
    /\ Idle
    /\ authenticator' = [k \in Kinds |->
           authenticate_pinged(ping_failure(authenticator[k], failure), args)]
    /\ UNCHANGED <<responses, attached>>

AuthenticateExit ==
    /\ \E k \in Kinds : PollEnded(authenticator[k])
    /\ authenticator' = [k \in Kinds |->
           IF PollEnded(authenticator[k])
           THEN authenticate_polled(authenticator[k])
           ELSE authenticator[k]]
    /\ UNCHANGED <<responses, attached>>

NextAuthenticate ==
    \/ \E h \in UserHandlers : AttachHandler(h)
    \/ \E args \in AuthenticateArgs, response \in DeviceResponses :
           Authenticate(args, response)
    \/ \E args \in AuthenticateArgs, failure \in Failures :
           AuthenticateFailure(args, failure)
    \/ PollPost
    \/ \E response \in TokenResponses : PollResponse(response)
    \/ \E failure \in Failures : PollFailure(failure)
    \/ PollWake
    \/ AuthenticateExit
    \/ Return

SpecAuthenticate == Init /\ [][NextAuthenticate]_vars

-----------------------------------------------------------------------------
(* A user's handler whose action pings again, which replaces the AuthInfo   *)
(* while poll is in its loop.                                               *)

RefreshAction == "ctx.ping()"

RefreshHandlers ==
    {Handler(error, RefreshAction, continue_on_error) :
        error \in ErrorCodes, continue_on_error \in BOOLEAN}

\* what the device authorization endpoint answers a ping made by a handler:
\* a response as before, one for another device code, one without it
RefreshResponses ==
    {r \in DeviceResponses :
        {"user_code", "expires_in", "interval", "verification_uri"}
            \subseteq DOMAIN r}

\* lambda ctx: ctx.ping(): Authenticator.ping runs; AsyncAuthenticator.ping
\* only makes a coroutine, which handler.action(self) never awaits
refresh_action(kind, ctx, response) ==
    IF kind = "Authenticator" THEN ping(ctx, response) ELSE ctx

\* handler.action(self) for that handler; an exception of the ping leaves
\* poll through the call
poll_action_refresh(kind, a, handler, device) ==
    LET p == refresh_action(kind, a, device)
        b == [a EXCEPT !.handler = handler,
                       !.actions = Append(@, Ran(a, handler, a))]
    IN  IF kind = "Authenticator" /\ IsRaise(p.result)
        THEN Leave(b, p.result)
        ELSE poll_handled(kind, [b EXCEPT !.auth_info = p.auth_info])

poll_response_refresh(kind, a, response, device) ==
    LET handler == IF "error" \in DOMAIN response
                   THEN lookup(a.handlers, response["error"]) ELSE None
    IN  IF handler # None /\ Get(handler, "action") = RefreshAction
        THEN poll_action_refresh(kind, a, handler, device)
        ELSE poll_response(kind, a, response)

PollResponseRefresh(response, device) ==
    /\ At("await") # {}
    /\ authenticator' = [k \in Kinds |->
           IF k \in At("await")
           THEN poll_response_refresh(k, authenticator[k], response, device)
           ELSE authenticator[k]]
    /\ responses' = Append(responses, response)
    /\ UNCHANGED attached

NextRefresh ==
    \/ \E h \in RefreshHandlers : AttachHandler(h)
    \/ \E response \in DeviceResponses : Ping(response)
    \/ PollBegin
    \/ PollPost
    \/ \E response \in TokenResponses, device \in RefreshResponses :
           PollResponseRefresh(response, device)
    \/ PollWake
    \/ Return

SpecRefresh == Init /\ [][NextRefresh]_vars

-----------------------------------------------------------------------------
(* The event loop of AsyncAuthenticator.  It runs one task at a time and    *)
(* changes task only where the running coroutine awaits: in poll, at the    *)
(* async with of the session and the post, and at await response.json().    *)
(* handler.action(self) is a plain call, and time.sleep in it keeps the     *)
(* thread, and with it the loop.                                            *)

Suspended(a) == a.call = "poll" /\ a.pc = "await"

other_task(a) == [a EXCEPT !.others = @ + 1]

OtherTask ==
    /\ Suspended(authenticator["AsyncAuthenticator"])
    /\ authenticator["AsyncAuthenticator"].others < MaxOtherSteps
    /\ authenticator' = [authenticator EXCEPT
           !["AsyncAuthenticator"] = other_task(@)]
    /\ UNCHANGED <<responses, attached>>

NextLoop ==
    \/ \E h \in UserHandlers : AttachHandler(h)
    \/ \E response \in DeviceResponses : Ping(response)
    \/ PollBegin
    \/ PollPost
    \/ \E response \in TokenResponses : PollResponse(response)
    \/ PollWake
    \/ OtherTask
    \/ Return

SpecLoop == Init /\ [][NextLoop]_vars

-----------------------------------------------------------------------------
(* Properties *)

\* the answer to the i-th token request has reached authenticator a and a has
\* acted on it
Received(a, i) ==
    /\ a.call = "poll"
    /\ i <= Len(a.requests)
    /\ (i = Len(a.requests) => a.pc # "await")

ActionsFor(a, i) == {j \in DOMAIN a.actions : a.actions[j].response = i}

Carries(args, error) == \E j \in DOMAIN args : args[j] = error

Finished(a) == a.call = "poll" /\ a.pc = "done"

\* C1: a token response without an error field ends poll at that request:
\* no further token request is issued, and the access_token of the response
\* is what poll returns, unchanged.
C1_SuccessReturnsToken ==
    \A k \in Kinds : \A i \in DOMAIN responses :
        LET a == authenticator[k] IN
        (Received(a, i) /\ "error" \notin DOMAIN responses[i]) =>
            /\ a.pc = "done"
            /\ Len(a.requests) = i
            /\ ("access_token" \in DOMAIN responses[i] =>
                    a.result = Returned("str", <<responses[i]["access_token"]>>))

C1_Witness ==
    \A k \in Kinds :
        /\ Finished(authenticator[k])
        /\ Len(authenticator[k].requests) = 2
        /\ authenticator[k].result = Returned("str", <<"gho_B">>)

\* C2: an error code with no handler registered ends poll at once with a
\* ServerError carrying the code: no action runs for that response and no
\* further token request is issued.
C2_UnhandledErrorIsFatal ==
    \A k \in Kinds : \A i \in DOMAIN responses :
        LET a == authenticator[k] IN
        (/\ Received(a, i)
         /\ "error" \in DOMAIN responses[i]
         /\ lookup(a.handlers, responses[i]["error"]) = None) =>
            /\ a.pc = "done"
            /\ Len(a.requests) = i
            /\ ActionsFor(a, i) = {}
            /\ a.result.type = "ServerError"
            /\ Carries(a.result.value, responses[i]["error"])

C2_Witness ==
    \A k \in Kinds :
        /\ Finished(authenticator[k])
        /\ Len(authenticator[k].requests) = 2
        /\ Len(authenticator[k].actions) = 1
        /\ authenticator[k].result.type = "ServerError"
        /\ Carries(authenticator[k].result.value, "expired_token")

Pending == [error |-> "authorization_pending"]

PendingPendingSuccess ==
    /\ attached = <<>>
    /\ Len(responses) = 3
    /\ responses[1] = Pending
    /\ responses[2] = Pending
    /\ DOMAIN responses[3] = {"access_token"}

C4_SlowDownAddsFive ==
    \A k \in Kinds : \A j \in DOMAIN authenticator[k].actions :
        LET a == authenticator[k]
            ran == a.actions[j] IN
        ran.action = DefaultSlowDownAction =>
            /\ ran.after = ran.before + SlowDownStep
            /\ (Len(a.requests) > ran.response \/ a.pc = "post")

\* C5: after a slow_down handled by the default handler, every later sleep
\* of the same poll is longer than the sleep that applied when the slow_down
\* arrived.
C5_SlowDownLengthensWait ==
    \A k \in Kinds :
        LET a == authenticator[k] IN
        \A j \in DOMAIN a.actions : \A s \in DOMAIN a.sleeps :
            (/\ a.actions[j].action = DefaultSlowDownAction
             /\ a.sleeps[s].before > a.actions[j].response) =>
                a.sleeps[s].seconds > a.actions[j].wait

\* C6: for an error with a registered handler, poll runs the handler's
\* action exactly once; with continue_on_error false poll then ends with no
\* token and no error and issues no further request, with continue_on_error
\* true it goes on to the next request.
C6_HandlerDecidesContinuation ==
    \A k \in Kinds : \A i \in DOMAIN responses :
        LET a == authenticator[k] IN
        (/\ Received(a, i)
         /\ "error" \in DOMAIN responses[i]
         /\ lookup(a.handlers, responses[i]["error"]) # None) =>
            LET handler == lookup(a.handlers, responses[i]["error"]) IN
            /\ Cardinality(ActionsFor(a, i)) = 1
            /\ \A j \in ActionsFor(a, i) : a.actions[j].action = handler.action
            /\ IF handler.continue_on_error
               THEN Len(a.requests) > i \/ a.pc \in {"post", "sleep"}
               ELSE /\ a.pc = "done"
                    /\ Len(a.requests) = i
                    /\ a.result = Returned("None", <<>>)

\* how a poll ended, as its caller sees it: the token, nothing, or the error
\* code the exception carries
Outcome(a) ==
    [type |-> a.result.type,
     value |-> IF a.result.type = "ServerError"
               THEN <<a.result.value[Len(a.result.value)]>>
               ELSE a.result.value]

ActionNames(a) == [j \in DOMAIN a.actions |-> a.actions[j].action]

\* C7: given the same registry and the same server answers, the synchronous
\* and the asynchronous poll issue the same number of token requests, run
\* the same actions in the same order and end alike.
C7_SyncAsyncAgree ==
    LET s == authenticator["Authenticator"]
        a == authenticator["AsyncAuthenticator"] IN
    (Finished(s) /\ Finished(a)) =>
        /\ Len(s.requests) = Len(a.requests)
        /\ ActionNames(s) = ActionNames(a)
        /\ Outcome(s) = Outcome(a)

\* every handler passed to attach_handler since the registry was empty
Attached == get_default_handlers \o attached

LastAttached(error) ==
    IF Matching(Attached, error) = {} THEN None
    ELSE Attached[CHOOSE i \in Matching(Attached, error) :
                      \A j \in Matching(Attached, error) : j <= i]

\* C8: the registry never holds two handlers for one error code, and the
\* handler found for a code is the one attached last for it.
C8_OneHandlerPerCode ==
    \A k \in Kinds : \A error \in ErrorCodes :
        /\ Cardinality(Matching(get_handlers(authenticator[k]), error)) <= 1
        /\ lookup(authenticator[k].handlers, error) = LastAttached(error)

C8_Witness ==
    /\ Len(attached) = 2
    /\ attached[1].error = attached[2].error
    /\ attached[1] # attached[2]
    /\ \A k \in Kinds : Len(get_handlers(authenticator[k])) = 3

DefaultCodes == {"authorization_pending", "slow_down"}

UserAttached(error) == \E u \in DOMAIN attached : attached[u].error = error

\* C9: a fresh registry is the default handlers for authorization_pending
\* and slow_down, both continuing, and nothing else; once the user attached
\* a handler for a code, poll runs for that code the action the user attached
\* last and never the default's.
C9_UserOverridesDefault ==
    \A k \in Kinds :
        LET a == authenticator[k] IN
        /\ attached = <<>> =>
               /\ Len(a.handlers) = 2
               /\ {h.error : h \in {a.handlers[i] : i \in DOMAIN a.handlers}}
                      = DefaultCodes
               /\ lookup(a.handlers, "authorization_pending").action
                      = DefaultPendingAction
               /\ lookup(a.handlers, "slow_down").action = DefaultSlowDownAction
               /\ \A i \in DOMAIN a.handlers : a.handlers[i].continue_on_error
        /\ \A j \in DOMAIN a.actions :
               UserAttached(a.actions[j].error) =>
                   /\ a.actions[j].action \in UserActions
                   /\ a.actions[j].action = LastAttached(a.actions[j].error).action

C9_Witness ==
    \A k \in Kinds : \E j \in DOMAIN authenticator[k].actions :
        /\ authenticator[k].actions[j].error \in DefaultCodes
        /\ authenticator[k].actions[j].action \in UserActions

\* C10: poll on an authenticator that holds no AuthInfo fails at once: it
\* raises before any token request is issued and before any handler runs.
C10_PollBeforePingFails ==
    \A k \in Kinds :
        LET a == authenticator[k] IN
        (a.call = "poll" /\ a.auth_info = None) =>
            /\ a.pc = "done"
            /\ a.result.type = "AttributeError"
            /\ a.requests = <<>>
            /\ a.actions = <<>>

C10_Witness ==
    \A k \in Kinds :
        /\ Finished(authenticator[k])
        /\ authenticator[k].auth_info = None
        /\ authenticator[k].result.type = "AttributeError"

VerificationKeys == {"verification_uri", "verification_url"}

\* a device authorization response with every field ping reads
ValidDeviceResponse(response) ==
    /\ MissingKeys(response) = {}
    /\ VerificationKeys \cap DOMAIN response # {}

\* the AuthInfo a valid response describes
Described(response) ==
    [device_code |-> response["device_code"],
     user_code |-> response["user_code"],
     verification_uri |->
         IF "verification_uri" \in DOMAIN response
         THEN response["verification_uri"]
         ELSE response["verification_url"],
     expires_in |-> response["expires_in"],
     interval |-> response["interval"]]

PingEnded(a) == a.call = "ping" /\ a.pc = "done"

\* C11: for a valid device authorization response, ping returns the AuthInfo
\* that has the response's fields, verification_uri taken from
\* verification_uri when that key is present and from verification_url
\* otherwise, and that same AuthInfo is the one the authenticator now holds.
C11_PingBuildsAuthInfo ==
    \A k \in Kinds :
        LET a == authenticator[k] IN
        (PingEnded(a) /\ a.failures = <<>> /\ ValidDeviceResponse(a.answer)) =>
            /\ a.result = Returned("LoctocatAuthInfo", <<Described(a.answer)>>)
            /\ a.auth_info = Described(a.answer)

C11_Witness ==
    \A k \in Kinds :
        LET a == authenticator[k] IN
        /\ PingEnded(a) /\ a.failures = <<>>
        /\ VerificationKeys \subseteq DOMAIN a.answer
        /\ a.entry.auth_info # None
        /\ a.entry.auth_info # a.auth_info
        /\ a.auth_info.verification_uri = "uri"

\* C12: the AuthInfo an authenticator holds is absent or has all five fields
\* populated; a response without verification_uri and verification_url makes
\* ping raise instead of storing an AuthInfo.
C12_AuthInfoWhole ==
    \A k \in Kinds :
        LET a == authenticator[k] IN
        /\ a.auth_info # None =>
               /\ DOMAIN a.auth_info = {"device_code", "user_code",
                                        "verification_uri", "expires_in",
                                        "interval"}
               /\ \A f \in {"device_code", "user_code", "verification_uri"} :
                      a.auth_info[f] # NoneStr
        /\ (/\ PingEnded(a) /\ a.failures = <<>>
            /\ ~ValidDeviceResponse(a.answer)) =>
               a.result.type # "LoctocatAuthInfo"

\* C17: a transport failure in a poll iteration ends poll at that request
\* with that failure: no action runs for the request, no request follows,
\* and handlers, AuthInfo and poll_interval are as poll found them.
C17_TransportFailureEndsPoll ==
    \A k \in Kinds :
        LET a == authenticator[k] IN
        a.call = "poll" =>
            \A j \in DOMAIN a.failures :
                /\ a.pc = "done"
                /\ a.result = Raised(a.failures[j].failure, <<>>)
                /\ Len(a.requests) = a.failures[j].request
                /\ ActionsFor(a, a.failures[j].request) = {}
                /\ Fields(a) = a.entry

C17_Witness ==
    \A k \in Kinds :
        LET a == authenticator[k] IN
        /\ Finished(a)
        /\ a.failures = << [request |-> 2, failure |-> "Timeout"] >>
        /\ Len(a.actions) = 1

\* C19: a poll has at most one token request without an answer, and only
\* while it waits for that answer; each answer sets off at most one action,
\* and while an action runs (the sleep) no request is out: the next request
\* is issued only after the action has returned.
C19_OneAtATime ==
    \A k \in Kinds :
        LET a == authenticator[k] IN
        a.call = "poll" =>
            /\ Len(a.requests) <= Len(responses) + 1
            /\ Len(a.requests) = Len(responses) + 1 =>
                   (a.pc = "await" \/ a.failures # <<>>)
            /\ \A i \in DOMAIN a.requests : Cardinality(ActionsFor(a, i)) <= 1
            /\ \A j \in DOMAIN a.actions :
                   a.actions[j].response \in DOMAIN a.requests
            /\ a.pc = "sleep" =>
                   /\ Len(a.requests) = Len(responses)
                   /\ a.sleeps[Len(a.sleeps)].before = Len(a.requests) + 1
                   /\ a.actions[Len(a.actions)].response = Len(a.requests)

C19_Witness ==
    \A k \in Kinds :
        LET a == authenticator[k] IN
        /\ a.call = "poll" /\ a.pc = "sleep"
        /\ Len(a.requests) = 2
        /\ Len(a.actions) = 2

\* C20: a ping that fails, by a transport failure or by a missing
\* device_code, user_code, expires_in or interval, leaves the authenticator's
\* AuthInfo (and its other fields) as the call found it.
C20_FailedPingKeepsAuthInfo ==
    \A k \in Kinds :
        LET a == authenticator[k] IN
        (PingEnded(a) /\ a.result.type # "LoctocatAuthInfo") =>
            /\ a.auth_info = a.entry.auth_info
            /\ Fields(a) = a.entry

C20_Witness ==
    \A k \in Kinds :
        LET a == authenticator[k] IN
        /\ PingEnded(a)
        /\ a.result.type = "KeyError"
        /\ a.auth_info # None
        /\ a.auth_info.device_code = "dc2"

AuthenticateEnded(a) == a.call = "authenticate" /\ a.pc = "done"

\* C13: authenticate calls ping once and then poll once; when ping fails it
\* calls no poll and ends as ping ended; otherwise it ends as poll ended:
\* with poll's token, or with poll's failure unchanged.
C13_AuthenticateIsPingThenPoll ==
    \A k \in Kinds :
        LET a == authenticator[k] IN
        AuthenticateEnded(a) =>
            IF IsRaise(a.pinged)
            THEN a.calls = <<"ping">> /\ a.result = a.pinged
            ELSE a.calls = <<"ping", "poll">> /\ a.result = a.polled

\* C16: authenticate marks the spinner as succeeded, and shows the success
\* message, only when its poll returned an access token.
C16_SuccessOnlyWithToken ==
    \A k \in Kinds :
        LET a == authenticator[k] IN
        (a.outer = "authenticate"
            /\ (a.spinner = "succeeded" \/ a.succeeded # <<>>)) =>
                a.polled.type = "str"

\* C15: every token request of poll carries the device code of the AuthInfo
\* the authenticator holds when the request is made, also after a handler
\* has replaced the AuthInfo during the poll.
C15_RequestCarriesHeldDeviceCode ==
    \A k \in Kinds :
        LET a == authenticator[k] IN
        (a.call = "poll" /\ a.pc = "await") =>
            a.requests[Len(a.requests)] = a.auth_info.device_code

\* C14: while AsyncAuthenticator.poll waits in the default
\* authorization_pending handler, another task of the event loop can take
\* a step.
C14_PendingWaitYields ==
    LET a == authenticator["AsyncAuthenticator"] IN
    (a.call = "poll" /\ a.pc = "sleep"
        /\ a.handler.action = DefaultPendingAction
        /\ a.others < MaxOtherSteps) =>
            ENABLED OtherTask

\* the terminal conditions of the loop, for the answer to a token request
Terminal(a, response) ==
    \/ "error" \notin DOMAIN response
    \/ lookup(a.handlers, response["error"]) = None
    \/ ~lookup(a.handlers, response["error"]).continue_on_error

\* C18: poll ends exactly through the terminal conditions of its loop: once
\* a token request is answered, poll has ended if the answer has no error
\* field, an error without a handler, or an error whose handler has
\* continue_on_error false, and otherwise it goes on, whatever time has
\* passed.
C18_EndsExactlyOnTerminal ==
    \A k \in Kinds :
        LET a == authenticator[k]
            n == Len(a.requests) IN
        (a.call = "poll" /\ n > 0 /\ a.pc # "await" /\ a.failures = <<>>) =>
            (a.pc = "done" <=> Terminal(a, responses[n]))

====
